---- MODULE Spec2Model ----
(***************************************************************************)
(* minimock: a generator of mock implementations of Go interfaces.        *)
(*                                                                         *)
(* Two state machines are modelled from src/minimock.go:                   *)
(*   - the generated mock (the text of the constant `template`): function  *)
(*     fields, counters, the RWMutex, forwarding methods executed by       *)
(*     goroutines step by step, and the verification helpers;              *)
(*   - one run of the generator (main, processFlags, visitor.Visit,        *)
(*     visitor.processInterface, die).                                     *)
(***************************************************************************)
EXTENDS Integers, Sequences, FiniteSets, TLC

(***************************************************************************)
(* Bounds of the model                                                     *)
(***************************************************************************)
\* goroutines that use one mock
NumThreads == 2
\* forwarding-method calls started over the life of the mock
MaxCalls == 2
\* depth of a goroutine's stack of mock calls (a configured function may call back)
MaxDepth == 2

Threads == 1..NumThreads
\* argument values a caller passes to a forwarding method
Args == {"a1", "a2"}
\* function values a test assigns to a function field
Funcs == {"f1", "f2"}

(***************************************************************************)
(* The generated mock                                                      *)
(***************************************************************************)
\* {{$structName}}
StructName == "GreeterMock"
\* the method set the template ranges over (text/template visits map keys in sorted order)
Methods == <<"Greet", "Other">>
MethodSet == {Methods[i] : i \in 1..Len(Methods)}
\* the nil function value
Nil == "nil"
\* no goroutine holds the write lock
NoThread == 0

\* the state of a generated mock and of the goroutines that use it
VARIABLES
    Func,       \* m.<Method>Func: Nil or the configured function
    Counter,    \* m.<Method>Counter
    writer,     \* m.m (sync.RWMutex): the goroutine holding the exclusive lock, or NoThread
    readers,    \* m.m (sync.RWMutex): the goroutines holding the read lock
    stack,      \* per goroutine: its stack of running mock calls, innermost last
    started,    \* history: per method, the calls made to the forwarding method
    sinceSet,   \* history: per method, a call was made after the last assignment of its function field
    event       \* what the last step made observable (testing.T output, a function invoked, a value returned)

mockVars == <<Func, Counter, writer, readers, stack, started, sinceSet, event>>

\* the state of one run of the generator
VARIABLES
    flags,      \* the command line
    gpc,        \* the statement of main the run has reached
    opts,       \* the options processFlags returns
    decls,      \* prog.Package(packagePath).Files: the type declarations, in traversal order
    loaded,     \* cfg.Load() has returned a program
    walkPos,    \* the next type declaration ast.Walk hands to Visit
    methods,    \* v.methods
    rendered,   \* gen.ProcessTemplate has succeeded
    outFile,    \* the file at opts.OutputFile: "untouched", "partial" or "complete"
    stderr,     \* what the run printed on standard error
    exitCode    \* the exit code, NotExited until the process ends

genVars == <<flags, gpc, opts, decls, loaded, walkPos, methods, rendered, outFile, stderr, exitCode>>

\* what the configured function fn returns for the arguments it receives
FuncResult(fn, arg) == <<fn, arg>>

\* {{(params $method).Pass}}: the arguments forwarded to the function field
PassedArgs(arg) == arg

\* m.t.Fatalf("Unexpected call to {{$structName}}.{{$methodName}}")
UnexpectedMsg(m) == <<"Unexpected call to", StructName, m>>
\* m.t.Error("Expected call to {{$structName}}.{{$methodName}}")
ExpectedMsg(m) == <<"Expected call to", StructName, m>>
\* m.t.Log("ValidateCallCounters is deprecated please use CheckMocksCalled")
DeprecationMsg == <<"ValidateCallCounters is deprecated please use CheckMocksCalled">>

NoFrame == [kind |-> "none", m |-> "", arg |-> "", pc |-> "", tmp |-> 0, fn |-> Nil, passed |-> "", ninv |-> 0, res |-> FALSE]
FwdFrame(m, a) == [kind |-> "fwd", m |-> m, arg |-> a, pc |-> "lock", tmp |-> 0, fn |-> Nil, passed |-> "", ninv |-> 0, res |-> FALSE]
AmcFrame == [kind |-> "amc", m |-> "", arg |-> "", pc |-> "rlock", tmp |-> 0, fn |-> Nil, passed |-> "", ninv |-> 0, res |-> FALSE]

NoEvent == [op |-> "none", t |-> NoThread, m |-> "", val |-> <<>>, fr |-> NoFrame]
Ev(op, t, m, val, fr) == [op |-> op, t |-> t, m |-> m, val |-> val, fr |-> fr]

Top(t) == stack[t][Len(stack[t])]
Running(t, kind, pc) == stack[t] # <<>> /\ Top(t).kind = kind /\ Top(t).pc = pc
SetTop(t, fr) == [stack EXCEPT ![t] = [@ EXCEPT ![Len(@)] = fr]]
Pop(t) == [stack EXCEPT ![t] = SubSeq(@, 1, Len(@) - 1)]
Push(t, fr) == [stack EXCEPT ![t] = Append(@, fr)]

RECURSIVE SumOver(_, _)
SumOver(f, S) == IF S = {} THEN 0 ELSE LET x == CHOOSE y \in S : TRUE IN f[x] + SumOver(f, S \ {x})
TotalStarted == SumOver(started, MethodSet)

\* the empty string
Empty == <<>>
\* the exit code of a process that has not ended
NotExited == 0 - 1
\* the options before processFlags has run
NoOpts == [InputFile |-> Empty, OutputFile |-> Empty, InterfaceName |-> Empty,
           Package |-> Empty, StructName |-> Empty]
\* a command line without flags
NoFlags == [f |-> Empty, i |-> Empty, o |-> Empty, p |-> Empty, t |-> Empty]
\* map[string]*types.Signature{}
EmptyMap == [n \in {} |-> ""]

\* New{{$structName}}: nil function fields, zero counters, a fresh RWMutex
MockInit ==
    /\ Func = [m \in MethodSet |-> Nil]
    /\ Counter = [m \in MethodSet |-> 0]
    /\ writer = NoThread
    /\ readers = {}
    /\ stack = [t \in Threads |-> <<>>]
    /\ started = [m \in MethodSet |-> 0]
    /\ sinceSet = [m \in MethodSet |-> FALSE]
    /\ event = NoEvent
    /\ flags = NoFlags
    /\ gpc = "flags"
    /\ opts = NoOpts
    /\ decls = <<>>
    /\ loaded = FALSE
    /\ walkPos = 1
    /\ methods = EmptyMap
    /\ rendered = FALSE
    /\ outFile = "untouched"
    /\ stderr = "none"
    /\ exitCode = NotExited

\* goroutine t runs code of the test: the test body (empty stack) or a
\* configured function
InUserCode(t) == stack[t] = <<>> \/ Running(t, "fwd", "infn")

\* a goroutine may call into the mock from the test body or from inside a
\* configured function that is running
CanCall(t) == InUserCode(t) /\ Len(stack[t]) < MaxDepth

\* test code (or a configured function) assigns a function to a function field:
\* m.<Method>Func = f
SetFunc(t, m, f) ==
    /\ InUserCode(t)
    /\ Func' = [Func EXCEPT ![m] = f]
    /\ sinceSet' = [sinceSet EXCEPT ![m] = FALSE]
    /\ event' = NoEvent
    /\ UNCHANGED <<Counter, writer, readers, stack, started>>
    /\ UNCHANGED genVars

\* entry of the forwarding method: func (m *S) Method(args)
Call(t, m, a) ==
    /\ CanCall(t)
    /\ TotalStarted < MaxCalls
    /\ stack' = Push(t, FwdFrame(m, a))
    /\ started' = [started EXCEPT ![m] = @ + 1]
    /\ sinceSet' = [sinceSet EXCEPT ![m] = TRUE]
    /\ event' = NoEvent
    /\ UNCHANGED <<Func, Counter, writer, readers>>
    /\ UNCHANGED genVars

\* sync.RWMutex: a Lock call first excludes the other writers
CanLockAlways == TRUE
CanLock == writer = NoThread

\* m.m.Lock(): the goroutine becomes the writer; from here on new readers block
Lock(t) ==
    /\ Running(t, "fwd", "lock")
    /\ CanLock
    /\ writer' = t
    /\ stack' = SetTop(t, [Top(t) EXCEPT !.pc = "drain"])
    /\ event' = NoEvent
    /\ UNCHANGED <<Func, Counter, readers, started, sinceSet>>
    /\ UNCHANGED genVars

\* m.m.Lock(): Lock returns once the readers that held the lock have released it
LockAcquired(t) ==
    /\ Running(t, "fwd", "drain")
    /\ readers = {}
    /\ stack' = SetTop(t, [Top(t) EXCEPT !.pc = "load"])
    /\ event' = NoEvent
    /\ UNCHANGED <<Func, Counter, writer, readers, started, sinceSet>>
    /\ UNCHANGED genVars

\* m.<Method>Counter += 1, the read
ReadCounter(t) ==
    /\ Running(t, "fwd", "load")
    /\ stack' = SetTop(t, [Top(t) EXCEPT !.pc = "store", !.tmp = Counter[Top(t).m]])
    /\ event' = NoEvent
    /\ UNCHANGED <<Func, Counter, writer, readers, started, sinceSet>>
    /\ UNCHANGED genVars

\* m.<Method>Counter += 1, the write
WriteCounter(t) ==
    /\ Running(t, "fwd", "store")
    /\ Counter' = [Counter EXCEPT ![Top(t).m] = Top(t).tmp + 1]
    /\ stack' = SetTop(t, [Top(t) EXCEPT !.pc = "unlock", !.tmp = 0])
    /\ event' = NoEvent
    /\ UNCHANGED <<Func, writer, readers, started, sinceSet>>
    /\ UNCHANGED genVars

\* the write lock after the forwarding method's m.m.Unlock()
UnlockKept(t) == writer
Unlocked(t) == NoThread

\* m.m.Unlock()
Unlock(t) ==
    /\ Running(t, "fwd", "unlock")
    /\ writer' = Unlocked(t)
    /\ stack' = SetTop(t, [Top(t) EXCEPT !.pc = "check"])
    /\ event' = NoEvent
    /\ UNCHANGED <<Func, Counter, readers, started, sinceSet>>
    /\ UNCHANGED genVars

\* if m.<Method>Func == nil
IsNilNever(f) == FALSE
IsNil(f) == f = Nil

\* if m.<Method>Func == nil { m.t.Fatalf(...) }: Fatalf ends the goroutine (runtime.Goexit)
NilCheck(t) ==
    /\ Running(t, "fwd", "check")
    /\ IF IsNil(Func[Top(t).m])
       THEN /\ event' = Ev("fatal", t, Top(t).m, UnexpectedMsg(Top(t).m), Top(t))
            /\ stack' = [stack EXCEPT ![t] = <<>>]
       ELSE /\ event' = NoEvent
            /\ stack' = SetTop(t, [Top(t) EXCEPT !.pc = "invoke"])
    /\ UNCHANGED <<Func, Counter, writer, readers, started, sinceSet>>
    /\ UNCHANGED genVars

\* m.<Method>Func(args): the configured function starts running
Invoke(t) ==
    /\ Running(t, "fwd", "invoke")
    /\ LET fr == [Top(t) EXCEPT !.pc = "infn", !.fn = Func[Top(t).m],
                                !.passed = PassedArgs(Top(t).arg), !.ninv = @ + 1]
       IN /\ stack' = SetTop(t, fr)
          /\ event' = Ev("invoke", t, fr.m, <<fr.fn, fr.passed>>, fr)
    /\ UNCHANGED <<Func, Counter, writer, readers, started, sinceSet>>
    /\ UNCHANGED genVars

\* return m.<Method>Func(args): the function returns and the method returns its results
Return(t) ==
    /\ Running(t, "fwd", "infn")
    /\ event' = Ev("return", t, Top(t).m, FuncResult(Top(t).fn, Top(t).passed), Top(t))
    /\ stack' = Pop(t)
    /\ UNCHANGED <<Func, Counter, writer, readers, started, sinceSet>>
    /\ UNCHANGED genVars

\* ValidateCallCounters: if m.<Method>Func != nil && m.<Method>Counter == 0
ValidateCond(m, F, C) == F[m] # Nil /\ C[m] = 0

RECURSIVE ValidateLoop(_, _, _)
ValidateLoop(i, F, C) ==
    IF i > Len(Methods) THEN <<>>
    ELSE (IF ValidateCond(Methods[i], F, C) THEN <<ExpectedMsg(Methods[i])>> ELSE <<>>)
         \o ValidateLoop(i + 1, F, C)

\* func (m *S) ValidateCallCounters()
ValidateCallCounters(t) ==
    /\ InUserCode(t)
    /\ event' = Ev("validate", t, "", <<DeprecationMsg, ValidateLoop(1, Func, Counter)>>, NoFrame)
    /\ UNCHANGED <<Func, Counter, writer, readers, stack, started, sinceSet>>
    /\ UNCHANGED genVars

\* CheckMocksCalled: if m.<Method>Func != nil && m.<Method>Counter == 0
CheckCondAnyFunc(m, F, C) == C[m] = 0
CheckCond(m, F, C) == F[m] # Nil /\ C[m] = 0

RECURSIVE CheckLoop(_, _, _)
CheckLoop(i, F, C) ==
    IF i > Len(Methods) THEN <<>>
    ELSE (IF CheckCond(Methods[i], F, C) THEN <<ExpectedMsg(Methods[i])>> ELSE <<>>)
         \o CheckLoop(i + 1, F, C)

\* func (m *S) CheckMocksCalled()
CheckMocksCalled(t) ==
    /\ InUserCode(t)
    /\ event' = Ev("check", t, "", CheckLoop(1, Func, Counter), NoFrame)
    /\ UNCHANGED <<Func, Counter, writer, readers, stack, started, sinceSet>>
    /\ UNCHANGED genVars

\* AllMocksCalled: if m.<Method>Func != nil && m.<Method>Counter == 0 { return false }
AllCalledCondAnyFunc(m, F, C) == C[m] = 0
AllCalledCondNonZero(m, F, C) == F[m] # Nil /\ C[m] # 0
AllCalledCond(m, F, C) == F[m] # Nil /\ C[m] = 0

RECURSIVE AllCalledLoop(_, _, _)
AllCalledLoop(i, F, C) ==
    IF i > Len(Methods) THEN TRUE
    ELSE IF AllCalledCond(Methods[i], F, C) THEN FALSE
    ELSE AllCalledLoop(i + 1, F, C)

\* entry of func (m *S) AllMocksCalled() bool
CallAllMocksCalled(t) ==
    /\ CanCall(t)
    /\ stack' = Push(t, AmcFrame)
    /\ event' = NoEvent
    /\ UNCHANGED <<Func, Counter, writer, readers, started, sinceSet>>
    /\ UNCHANGED genVars

\* sync.RWMutex: RLock returns when no goroutine holds or awaits the lock for writing
CanRLock == writer = NoThread

\* m.m.RLock()
RLock(t) ==
    /\ Running(t, "amc", "rlock")
    /\ CanRLock
    /\ readers' = readers \cup {t}
    /\ stack' = SetTop(t, [Top(t) EXCEPT !.pc = "eval"])
    /\ event' = NoEvent
    /\ UNCHANGED <<Func, Counter, writer, started, sinceSet>>
    /\ UNCHANGED genVars

\* the loop over the methods, up to the return statement
Eval(t) ==
    /\ Running(t, "amc", "eval")
    /\ LET fr == [Top(t) EXCEPT !.pc = "runlock", !.res = AllCalledLoop(1, Func, Counter)]
       IN /\ stack' = SetTop(t, fr)
          /\ event' = NoEvent
    /\ UNCHANGED <<Func, Counter, writer, readers, started, sinceSet>>
    /\ UNCHANGED genVars

\* defer m.m.RUnlock(), then the return to the caller
RUnlock(t) ==
    /\ Running(t, "amc", "runlock")
    /\ readers' = readers \ {t}
    /\ stack' = Pop(t)
    /\ event' = Ev("amc", t, "", Top(t).res, Top(t))
    /\ UNCHANGED <<Func, Counter, writer, started, sinceSet>>
    /\ UNCHANGED genVars

\* the steps of a goroutine inside the mock's methods
MockStep(t) ==
    \/ Lock(t)
    \/ LockAcquired(t)
    \/ ReadCounter(t)
    \/ WriteCounter(t)
    \/ Unlock(t)
    \/ NilCheck(t)
    \/ Invoke(t)
    \/ Return(t)
    \/ RLock(t)
    \/ Eval(t)
    \/ RUnlock(t)

\* the goroutine that runs the test function; after a Fatalf has ended it,
\* the test's deferred functions and later tests go on using the mock
TestGoroutine == CHOOSE t \in Threads : \A u \in Threads : t <= u

\* a test that uses the mock from its own goroutine: it configures function
\* fields, calls forwarding methods and the helpers, one operation at a time
MockNext ==
    \/ \E m \in MethodSet, f \in Funcs : SetFunc(TestGoroutine, m, f)
    \/ \E m \in MethodSet, a \in Args : Call(TestGoroutine, m, a)
    \/ CallAllMocksCalled(TestGoroutine)
    \/ CheckMocksCalled(TestGoroutine)
    \/ ValidateCallCounters(TestGoroutine)
    \/ MockStep(TestGoroutine)

\* the function and the argument the goroutines of the concurrent test use
ConcFunc == CHOOSE f \in Funcs : TRUE
ConcArg == CHOOSE a \in Args : TRUE

\* a test that configures the mock and then uses it from several goroutines:
\* every function field is nil or set before the goroutines start
ConcInit ==
    /\ Func \in [MethodSet -> {ConcFunc, Nil}]
    /\ Counter = [m \in MethodSet |-> 0]
    /\ writer = NoThread
    /\ readers = {}
    /\ stack = [t \in Threads |-> <<>>]
    /\ started = [m \in MethodSet |-> 0]
    /\ sinceSet = [m \in MethodSet |-> FALSE]
    /\ event = NoEvent
    /\ flags = NoFlags
    /\ gpc = "flags"
    /\ opts = NoOpts
    /\ decls = <<>>
    /\ loaded = FALSE
    /\ walkPos = 1
    /\ methods = EmptyMap
    /\ rendered = FALSE
    /\ outFile = "untouched"
    /\ stderr = "none"
    /\ exitCode = NotExited

ConcNext ==
    \E t \in Threads :
        \/ \E m \in MethodSet : Call(t, m, ConcArg)
        \/ CallAllMocksCalled(t)
        \/ MockStep(t)

(***************************************************************************)
(* One run of the generator                                                *)
(***************************************************************************)
\* type declarations (ast.TypeSpec nodes) in the files of the loaded package
MaxDecls == 2

\* strings are sequences of characters
GoSuffix == <<".", "g", "o">>
MockSuffix == <<"M", "o", "c", "k">>

\* strings.HasSuffix
HasSuffix(s, suffix) ==
    Len(s) >= Len(suffix) /\ SubSeq(s, Len(s) - Len(suffix) + 1, Len(s)) = suffix

\* the values given on the command line (a flag that is absent has its default, "")
InputVals == {Empty, <<"p", "k", "g">>}
NameVals == {Empty, <<"G">>}
OutputVals == {Empty, <<"m", ".", "g", "o">>, <<"m", ".", "g">>, <<"g", "o">>, <<".", "g", "o", "x">>}
PkgVals == {Empty, <<"p">>}
SnameVals == {Empty, <<"T">>}
FlagSets == [f : InputVals, i : NameVals, o : OutputVals, p : PkgVals, t : SnameVals]

\* the method sets (go/types: explicit and embedded methods, one per name)
\* of the interface types of the package
Method(n, sig, from) == [name |-> n, sig |-> sig, from |-> from]
InterfaceTypes == {
    <<>>,
    <<Method("a", "s1", "explicit")>>,
    <<Method("b", "s2", "embedded")>>,
    <<Method("a", "s2", "explicit"), Method("b", "s1", "embedded")>> }

\* what gen.ExpressionType(ts.Type) yields for a type declaration
ExprTypes ==
    [kind : {"interface"}, methods : InterfaceTypes]
        \cup [kind : {"other", "error"}, methods : {<<>>}]

\* a type declaration: at package level, or local to a function body
TypeSpecs == [name : {<<"G">>, <<"H">>}, scope : {"package", "local"}, type : ExprTypes]

RECURSIVE SeqsUpTo(_, _)
SeqsUpTo(S, n) ==
    IF n = 0 THEN {<<>>}
    ELSE LET shorter == SeqsUpTo(S, n - 1)
         IN shorter \cup {Append(q, x) : q \in {r \in shorter : Len(r) = n - 1}, x \in S}

\* the packages the loader accepts: a name is declared once at package level
Packages ==
    {ds \in SeqsUpTo(TypeSpecs, MaxDecls) :
        \A j, k \in 1..Len(ds) :
            (j # k /\ ds[j].scope = "package" /\ ds[k].scope = "package")
                => ds[j].name # ds[k].name}


GenInit ==
    /\ flags \in FlagSets
    /\ gpc = "flags"
    /\ opts = NoOpts
    /\ decls = <<>>
    /\ loaded = FALSE
    /\ walkPos = 1
    /\ methods = EmptyMap
    /\ rendered = FALSE
    /\ outFile = "untouched"
    /\ stderr = "none"
    /\ exitCode = NotExited
    /\ Func = [m \in MethodSet |-> Nil]
    /\ Counter = [m \in MethodSet |-> 0]
    /\ writer = NoThread
    /\ readers = {}
    /\ stack = [t \in Threads |-> <<>>]
    /\ started = [m \in MethodSet |-> 0]
    /\ sinceSet = [m \in MethodSet |-> FALSE]
    /\ event = NoEvent

\* os.Exit(1), after the message msg on standard error
Exit1(msg) ==
    /\ stderr' = msg
    /\ exitCode' = 1
    /\ gpc' = "exit"

\* func die(err error)
die(err) == Exit1(err)

\* processFlags: the condition under which it prints the usage and exits
FlagsInvalidNoSuffix(fl) ==
    fl.p = Empty \/ fl.f = Empty \/ fl.o = Empty \/ fl.i = Empty
FlagsInvalid(fl) ==
    fl.p = Empty \/ fl.f = Empty \/ fl.o = Empty \/ fl.i = Empty \/ ~HasSuffix(fl.o, GoSuffix)

\* processFlags: *sname = *name + "Mock" when -t is empty
StructNameOf(fl) == IF fl.t = Empty THEN fl.i \o MockSuffix ELSE fl.t

\* opts := processFlags()
processFlags ==
    /\ gpc = "flags"
    /\ IF FlagsInvalid(flags)
       THEN /\ Exit1("usage")
            /\ opts' = opts
       ELSE /\ opts' = [InputFile |-> flags.f, OutputFile |-> flags.o, InterfaceName |-> flags.i,
                        Package |-> flags.p, StructName |-> StructNameOf(flags)]
            /\ gpc' = "packageOfInput"
            /\ UNCHANGED <<stderr, exitCode>>
    /\ UNCHANGED <<flags, decls, loaded, walkPos, methods, rendered, outFile>>
    /\ UNCHANGED mockVars

\* packagePath, err := generator.PackageOf(opts.InputFile)
PackageOfInput ==
    /\ gpc = "packageOfInput"
    /\ \/ die("packageOf")
       \/ gpc' = "packageOfOutput" /\ UNCHANGED <<stderr, exitCode>>
    /\ UNCHANGED <<flags, opts, decls, loaded, walkPos, methods, rendered, outFile>>
    /\ UNCHANGED mockVars

\* destPackagePath, err := generator.PackageOf(filepath.Dir(opts.OutputFile))
PackageOfOutput ==
    /\ gpc = "packageOfOutput"
    /\ \/ die("packageOf")
       \/ gpc' = "load" /\ UNCHANGED <<stderr, exitCode>>
    /\ UNCHANGED <<flags, opts, decls, loaded, walkPos, methods, rendered, outFile>>
    /\ UNCHANGED mockVars

\* prog, err := cfg.Load(); then the generator and the visitor are set up
Load ==
    /\ gpc = "load"
    /\ \/ /\ die("load")
          /\ UNCHANGED <<decls, loaded>>
       \/ /\ decls' \in Packages
          /\ loaded' = TRUE
          /\ gpc' = "walk"
          /\ UNCHANGED <<stderr, exitCode>>
    /\ UNCHANGED <<flags, opts, walkPos, methods, rendered, outFile>>
    /\ UNCHANGED mockVars

MapPut(mp, k, v) == [n \in DOMAIN mp \cup {k} |-> IF n = k THEN v ELSE mp[n]]

\* func (v *visitor) processInterface(t *types.Interface)
RECURSIVE processInterfaceFrom(_, _, _)
processInterfaceFrom(mp, t, i) ==
    IF i > Len(t) THEN mp
    ELSE processInterfaceFrom(MapPut(mp, t[i].name, t[i].sig), t, i + 1)
processInterface(mp, t) == processInterfaceFrom(mp, t, 1)

\* func (v *visitor) Visit(node ast.Node), on the next type declaration of the walk
Visit ==
    /\ gpc = "walk"
    /\ walkPos <= Len(decls)
    /\ LET ts == decls[walkPos]
       IN IF ts.type.kind = "error"
          THEN /\ die("expressionType")
               /\ UNCHANGED <<walkPos, methods>>
          ELSE /\ methods' = IF ts.type.kind = "interface" /\ ts.name = opts.InterfaceName
                             THEN processInterface(methods, ts.type.methods)
                             ELSE methods
               /\ walkPos' = walkPos + 1
               /\ UNCHANGED <<gpc, stderr, exitCode>>
    /\ UNCHANGED <<flags, opts, decls, loaded, rendered, outFile>>
    /\ UNCHANGED mockVars

\* if len(v.methods) == 0 { die(...) }, after the walk over all the files
CheckMethods ==
    /\ gpc = "walk"
    /\ walkPos > Len(decls)
    /\ IF DOMAIN methods = {}
       THEN die("notFoundOrEmpty")
       ELSE gpc' = "template" /\ UNCHANGED <<stderr, exitCode>>
    /\ UNCHANGED <<flags, opts, decls, loaded, walkPos, methods, rendered, outFile>>
    /\ UNCHANGED mockVars

\* gen.ProcessTemplate("interface", template, v.methods)
ProcessTemplate ==
    /\ gpc = "template"
    /\ \/ /\ die("template")
          /\ UNCHANGED rendered
       \/ /\ rendered' = TRUE
          /\ gpc' = "write"
          /\ UNCHANGED <<stderr, exitCode>>
    /\ UNCHANGED <<flags, opts, decls, loaded, walkPos, methods, outFile>>
    /\ UNCHANGED mockVars

\* gen.WriteToFilename(opts.OutputFile): main writes to the output path itself
\* and removes nothing when the write fails, whatever it has written by then
WriteToFilename ==
    /\ gpc = "write"
    /\ \/ /\ outFile' = "complete"
          /\ gpc' = "done"
          /\ exitCode' = 0
          /\ UNCHANGED stderr
       \/ /\ outFile' \in {"untouched", "partial", "complete"}
          /\ die("write")
    /\ UNCHANGED <<flags, opts, decls, loaded, walkPos, methods, rendered>>
    /\ UNCHANGED mockVars

GenNext ==
    \/ processFlags
    \/ PackageOfInput
    \/ PackageOfOutput
    \/ Load
    \/ Visit
    \/ CheckMethods
    \/ ProcessTemplate
    \/ WriteToFilename

(***************************************************************************)
(* Specifications                                                          *)
(***************************************************************************)
vars == <<mockVars, genVars>>

\* a test that uses a generated mock from its own goroutine
Spec == MockInit /\ [][MockNext]_vars

\* Go schedules every goroutine that can run, a goroutine blocked in Lock or
\* RLock among them once the lock stays free; a configured function returns
ConcFairness ==
    \A t \in Threads :
        /\ WF_mockVars(Lock(t))
        /\ WF_mockVars(RLock(t))
        /\ SF_mockVars(Return(t))
        /\ WF_mockVars(LockAcquired(t) \/ ReadCounter(t) \/ WriteCounter(t) \/ Unlock(t)
                       \/ NilCheck(t) \/ Invoke(t) \/ Eval(t) \/ RUnlock(t))

\* a test that uses a configured mock from NumThreads goroutines
SpecConc == ConcInit /\ [][ConcNext]_vars /\ ConcFairness

\* one run of the generator
SpecGen == GenInit /\ [][GenNext]_vars

(***************************************************************************)
(* Properties of the generated mock                                        *)
(***************************************************************************)
Frames(t) == {stack[t][i] : i \in 1..Len(stack[t])}
Configured(m) == Func[m] # Nil
Occurrences(seq, x) == Cardinality({i \in 1..Len(seq) : seq[i] = x})
AllIdle == \A t \in Threads : stack[t] = <<>>

\* C1: a call to a forwarding method whose function field is nil reports the
\* fatal failure "Unexpected call to <structName>.<methodName>" and never
\* reaches the function call; a call whose function field is configured
\* invokes that function once, with the arguments the caller passed, and
\* returns what the function returned.
C1_Forwarding ==
    /\ event.op = "fatal" =>
          /\ ~Configured(event.m)
          /\ event.val = <<"Unexpected call to", StructName, event.m>>
          /\ event.fr.ninv = 0
    /\ \A t \in Threads : \A fr \in Frames(t) :
          fr.pc \in {"invoke", "infn"} => Configured(fr.m)
    /\ event.op = "invoke" =>
          /\ Configured(event.m)
          /\ event.val = <<Func[event.m], event.fr.arg>>
          /\ event.fr.ninv = 1
    /\ event.op = "return" =>
          /\ event.fr.ninv = 1
          /\ event.val = FuncResult(event.fr.fn, event.fr.arg)

\* a configured function has returned its result through the forwarding
\* method, on a mock where an unconfigured method has been called before
C1_Witness ==
    /\ event.op = "return"
    /\ event.val = <<"f2", "a2">>
    /\ \E m \in MethodSet : ~Configured(m) /\ Counter[m] > 0

\* C2: AllMocksCalled returns true exactly when every method whose function
\* field is configured has a counter above zero; a method whose function
\* field is nil has no influence.
C2_AllMocksCalled ==
    event.op = "amc" =>
        (event.val <=> \A m \in MethodSet : Configured(m) => Counter[m] > 0)

\* AllMocksCalled has returned true although one method was never
\* configured and never called, the other being configured and called
C2_Witness ==
    /\ event.op = "amc"
    /\ event.val = TRUE
    /\ \E m \in MethodSet : ~Configured(m) /\ Counter[m] = 0
    /\ \E m \in MethodSet : Configured(m) /\ Counter[m] > 0

\* C3 as stated: every AllMocksCalled evaluated after GreetFunc was set and
\* before the first Greet call that follows the assignment returns false.
C3_FalseUntilCalledAfterSet ==
    (event.op = "amc" /\ Configured("Greet") /\ ~sinceSet["Greet"]) => event.val = FALSE

\* C3, amended: every AllMocksCalled evaluated while GreetFunc is set and
\* no Greet call has been made on the mock at all (before or after the
\* assignment) returns false.
C3_FalseUntilCalled ==
    (event.op = "amc" /\ Configured("Greet") /\ started["Greet"] = 0) => event.val = FALSE

\* AllMocksCalled has returned false with GreetFunc set and Greet never
\* called, every other method being called
C3_Witness ==
    /\ event.op = "amc"
    /\ event.val = FALSE
    /\ Configured("Greet")
    /\ started["Greet"] = 0
    /\ \A m \in MethodSet \ {"Greet"} : Configured(m) /\ Counter[m] > 0

\* C4: a goroutine reads and writes a counter only while it holds the
\* exclusive lock, and once every call has finished each counter equals the
\* number of calls made to its method, under every interleaving of the
\* goroutines.
C4_NoLostIncrement ==
    /\ \A t \in Threads : \A fr \in Frames(t) :
          fr.pc \in {"load", "store"} => writer = t /\ readers = {}
    /\ AllIdle => \A m \in MethodSet : Counter[m] = started[m]

\* all the calls the bound allows were made, several to one method, and all
\* have finished
C4_Witness ==
    /\ AllIdle
    /\ TotalStarted = MaxCalls
    /\ \E m \in MethodSet : started[m] >= 2

\* the errors CheckMocksCalled records in the current state, one per
\* configured method with a zero counter
ExactErrors(errs) ==
    /\ \A m \in MethodSet :
          Occurrences(errs, <<"Expected call to", StructName, m>>)
              = IF Configured(m) /\ Counter[m] = 0 THEN 1 ELSE 0
    /\ \A i \in 1..Len(errs) : \E m \in MethodSet : errs[i] = <<"Expected call to", StructName, m>>

C9_Step ==
    /\ event'.op = "check" =>
          /\ ExactErrors(event'.val)
          /\ UNCHANGED <<Func, Counter, stack, writer, readers>>
    /\ event'.op = "validate" =>
          /\ event'.val[1] = <<"ValidateCallCounters is deprecated please use CheckMocksCalled">>
          /\ ExactErrors(event'.val[2])
          /\ UNCHANGED <<Func, Counter, stack, writer, readers>>

\* C9: CheckMocksCalled records one error for each configured method with
\* a zero counter and no other, ends no goroutine and changes no counter
\* and no function field; ValidateCallCounters logs the deprecation notice
\* and records the same errors.
C9_Helpers == [][C9_Step]_vars

\* a helper has recorded an error for one method and none for another that
\* is configured and was called
C9_Witness ==
    /\ event.op \in {"check", "validate"}
    /\ \E m \in MethodSet : Configured(m) /\ Counter[m] = 0
    /\ \E m \in MethodSet : Configured(m) /\ Counter[m] > 0

\* a goroutine holds the mock's lock only between Lock and Unlock, or
\* between RLock and RUnlock, of its innermost call
LockOnlyInCriticalSection ==
    \A t \in Threads :
        /\ writer = t => stack[t] # <<>> /\ Top(t).kind = "fwd"
                            /\ Top(t).pc \in {"drain", "load", "store", "unlock"}
        /\ t \in readers => stack[t] # <<>> /\ Top(t).kind = "amc"
                            /\ Top(t).pc \in {"eval", "runlock"}
        /\ event.op \in {"fatal", "invoke", "return"} /\ event.t = t => writer # t /\ t \notin readers

\* C10: no goroutine holds the mock's lock while it checks the function
\* field, reports the fatal failure or runs the configured function, so
\* every call a goroutine makes (from a configured function too) leaves
\* its wait for the lock and completes: the goroutine's stack of calls
\* empties again.
C10_NoDeadlock ==
    /\ []LockOnlyInCriticalSection
    /\ \A t \in Threads : (stack[t] # <<>>) ~> (stack[t] = <<>>)

\* a configured function has called back into a forwarding method, which
\* waits in Lock for the read lock another goroutine holds in AllMocksCalled
C10_Witness ==
    \E t \in Threads :
        /\ Len(stack[t]) = 2
        /\ stack[t][1].pc = "infn"
        /\ Top(t).pc = "drain"
        /\ readers # {}

(***************************************************************************)
(* Properties of a run of the generator                                    *)
(***************************************************************************)
\* the type declarations of the package that declare the requested name
Declares(j) == decls[j].name = flags.i
\* the declaration of the requested name at package level, the one the name
\* denotes in the package
PackageDecls == {j \in 1..Len(decls) : Declares(j) /\ decls[j].scope = "package"}
\* the method set of a declared interface, as a map from names to signatures
MethodSetOf(t) == [n \in {t[k].name : k \in 1..Len(t)} |->
                      (CHOOSE k \in 1..Len(t) : t[k].name = n)]
SignaturesOf(t) == [n \in DOMAIN MethodSetOf(t) |-> t[MethodSetOf(t)[n]].sig]
WalkDone == gpc \in {"template", "write", "done"} \/ (gpc = "exit" /\ stderr \in {"notFoundOrEmpty", "template", "write"})

\* the requested name is declared nowhere in the package, or denotes a type
\* that is no interface, or denotes an interface without methods
Unresolvable ==
    \/ \A j \in 1..Len(decls) : ~Declares(j)
    \/ \E j \in PackageDecls : decls[j].type.kind # "interface"
    \/ \E j \in PackageDecls : decls[j].type.kind = "interface" /\ decls[j].type.methods = <<>>

\* C5: when the requested name is not declared in the package, or denotes
\* a type that is no interface or an interface without methods, the run
\* never reaches template processing or the write of the output file, does
\* not end with exit code 0 and leaves no output file.
C5_NoOutputWhenUnresolvable ==
    (loaded /\ Unresolvable) =>
        /\ gpc \notin {"template", "write", "done"}
        /\ ~rendered
        /\ outFile = "untouched"
        /\ exitCode # 0

\* C6: a run that ends with exit code 1 leaves the file at the output path
\* untouched or holding the complete rendered text, never a part of it.
C6_NoPartialOutput ==
    exitCode = 1 => outFile \in {"untouched", "complete"}

\* C7: once the walk is over, the resolver's method set is the method set
\* of the declaration the requested interface name denotes (one entry per
\* method, embedded ones included, each with its signature), with no
\* method from any other declaration, whatever the traversal order.
C7_MethodSetOfTheInterface ==
    WalkDone =>
        \A j \in PackageDecls :
            decls[j].type.kind = "interface" => methods = SignaturesOf(decls[j].type.methods)

\* the -o value ends in ".go"
EndsInDotGo(o) ==
    /\ Len(o) >= 3
    /\ o[Len(o) - 2] = "."
    /\ o[Len(o) - 1] = "g"
    /\ o[Len(o)] = "o"

\* C8: with one of -f, -i, -o, -p missing or empty, or a -o value that
\* does not end in ".go", the run prints the usage and exits with code 1
\* with no package loaded and no file written; otherwise the run goes on,
\* with the -t value as struct name, or the interface name followed by
\* "Mock" when -t is absent or empty.
C8_FlagValidation ==
    gpc # "flags" =>
        IF flags.f = <<>> \/ flags.i = <<>> \/ flags.o = <<>> \/ flags.p = <<>> \/ ~EndsInDotGo(flags.o)
        THEN /\ gpc = "exit"
             /\ stderr = "usage"
             /\ exitCode = 1
             /\ ~loaded
             /\ decls = <<>>
             /\ outFile = "untouched"
        ELSE /\ stderr # "usage"
             /\ opts.InterfaceName = flags.i
             /\ opts.OutputFile = flags.o
             /\ opts.StructName = IF flags.t = <<>>
                                  THEN flags.i \o <<"M", "o", "c", "k">>
                                  ELSE flags.t

\* a run with valid flags and no -t has loaded the package, the struct name
\* being <interface name>Mock
C8_Witness ==
    /\ loaded
    /\ flags.t = <<>>
    /\ opts.StructName = <<"G", "M", "o", "c", "k">>
====
